---- MODULE Spec2Model ----
(***************************************************************************)
(* A model of src/app.py: the password-gated Streamlit dashboard that      *)
(* loads a CSV of shelter metrics and renders Plotly charts.               *)
(*                                                                         *)
(* A Streamlit script is re-run from its first line on every user          *)
(* interaction; st.session_state and the caches survive the runs.  The     *)
(* model has one step per section of the script (pc), and the pure         *)
(* functions of the script (_read_csv_bytes, the two plot functions, the   *)
(* organization selection) are operators.                                  *)
(***************************************************************************)
EXTENDS Integers, Sequences, FiniteSets, TLC

VARIABLES
    \* ---- the application session (specification Spec) ----
    pc,            \* position of the script run
    auth_passed,   \* st.session_state["auth_passed"]: "absent", "True" or "False"
    password,      \* st.session_state["password"]
    drive_cache,   \* st.cache_data of load_data_from_drive: <<>> or <<table>>
    df,            \* the module-level df: <<>> (None) or <<table>>
    drive_error,   \* the module-level drive_error: <<>> (None) or <<text>>
    widgets,       \* the values of the dashboard's widgets
    org_id,        \* the module-level org_id: <<>> (None) or <<id>>
    org_name,      \* the module-level org_name: <<>> (None) or <<name>>
    screen,        \* the elements the current run has rendered, in order
    csv_cache,     \* st.cache_data of _read_csv_bytes: the inputs it has parsed
    \* ---- one call of a pure function (SpecPlot, SpecCsv) ----
    call,          \* the arguments of the call
    ret            \* <<>> before the call, <<result>> after it

vars == <<pc, auth_passed, password, drive_cache, df, drive_error, widgets,
          org_id, org_name, screen, csv_cache, call, ret>>

appVars == <<pc, auth_passed, password, drive_cache, df, drive_error, widgets,
             org_id, org_name, screen>>

(***************************************************************************)
(* Bounds of the model.                                                    *)
(***************************************************************************)
MaxRows == 3

(***************************************************************************)
(* Cells of a table.  Numbers, ids and dates are integers; a missing value *)
(* (NaN, <NA>, NaT) is NA, and a CSV cell that is no number or no date is  *)
(* Unparsed until the cleanup coerces it.                                  *)
(***************************************************************************)
NA == 0 - 1
Unparsed == 0 - 2

\* A plotted value is a rational num/den; den = 0 is NaN.
NaN == [num |-> 0, den |-> 0]

Num(v) == IF v = NA THEN NaN ELSE [num |-> v, den |-> 1]

IsNaN(q) == q.den = 0

\* p and q are the same number (or both NaN).
SameValue(p, q) ==
    IF IsNaN(p) \/ IsNaN(q) THEN IsNaN(p) /\ IsNaN(q)
    ELSE p.num * q.den = q.num * p.den

Min2(a, b) == IF a < b THEN a ELSE b

Max2(a, b) == IF a > b THEN a ELSE b

RECURSIVE SelectSeqBy(_, _)
\* The elements of a sequence of strings that are not in a set, in order.
SelectSeqBy(s, present) ==
    IF s = <<>> THEN <<>>
    ELSE IF Head(s) \in present THEN SelectSeqBy(Tail(s), present)
         ELSE <<Head(s)>> \o SelectSeqBy(Tail(s), present)

(***************************************************************************)
(* pd.to_datetime(errors="coerce") and pd.to_numeric(errors="coerce") on   *)
(* one cell, and fillna("").                                               *)
(***************************************************************************)
ToDatetimeCoerce(c) == IF c = Unparsed THEN NA ELSE c

ToNumericCoerce(c) == IF c = Unparsed THEN NA ELSE c

NameNaN == "<NaN>"

FillNaName(n) == IF n = NameNaN THEN "" ELSE n

(***************************************************************************)
(* _read_csv_bytes.  The raw bytes are what matters of them: what each of  *)
(* the four parsing strategies makes of them, a table or an exception.     *)
(* raw[k] is [ok, df, error]: df is <<table>> when strategy k parses the   *)
(* bytes, and error is the text of the exception when it does not.         *)
(***************************************************************************)
Strategies == <<"c", "python_comma", "python_sniff", "python_tab">>

Parsed(table, tried) ==
    [kind |-> "ok", df |-> <<table>>, error |-> "", tried |-> tried]

Failed(error, tried) ==
    [kind |-> "raise", df |-> <<>>, error |-> error, tried |-> tried]

RECURSIVE TryFrom_first_error(_, _, _)
\* The strategies from the k-th on, raising the exception of the first one.
TryFrom_first_error(raw, k, tried) ==
    IF raw[k].ok THEN Parsed(raw[k].df[1], Append(tried, Strategies[k]))
    ELSE IF k = Len(Strategies) THEN Failed(raw[1].error, Append(tried, Strategies[k]))
    ELSE TryFrom_first_error(raw, k + 1, Append(tried, Strategies[k]))

RECURSIVE TryFrom(_, _, _)
\* The try blocks of lines 53-91 from the k-th on.
TryFrom(raw, k, tried) ==
    IF raw[k].ok THEN Parsed(raw[k].df[1], Append(tried, Strategies[k]))
    ELSE IF k = Len(Strategies) THEN Failed(raw[k].error, Append(tried, Strategies[k]))
    ELSE TryFrom(raw, k + 1, Append(tried, Strategies[k]))

\* The function under st.cache_data: an input parsed before is not parsed
\* again and its table is returned (an exception is not cached).
_read_csv_bytes(cache, raw) ==
    IF raw \in cache THEN [TryFrom(raw, 1, <<>>) EXCEPT !.tried = <<>>]
    ELSE TryFrom(raw, 1, <<>>)

CacheAfter(cache, raw) ==
    IF _read_csv_bytes(cache, raw).kind = "ok" THEN cache \cup {raw} ELSE cache

(***************************************************************************)
(* A table is [cols, rows, dt]: the set of its column names, its rows in   *)
(* file order, and whether column yyyymmdd has a datetime dtype.  A row is *)
(* [organization_id, organization_name, yyyymmdd, m], m the row's cells of *)
(* the metric columns.                                                     *)
(***************************************************************************)
\* The missing list of lines 155-157; the KeyError is raised when it is not empty.
assert_columns_present(data, cols) == SelectSeqBy(cols, data.cols)

\* str() of a Python list of column names.
Join(cols) ==
    IF cols = <<>> THEN "[]"
    ELSE LET F[i \in 1..Len(cols)] ==
                 IF i = 1 THEN "['" \o cols[1] \o "'"
                 ELSE F[i - 1] \o ", '" \o cols[i] \o "'"
         IN  F[Len(cols)] \o "]"

\* data[data["organization_id"] == org_id]: the rows of one organization.
OrgRows(data, id) ==
    SelectSeq(data.rows, LAMBDA r : r.organization_id = id)

RECURSIVE InsertByDate(_, _)
\* r put into a list sorted by date, after the rows that are not later; NaT last.
InsertByDate(r, sorted) ==
    IF sorted = <<>> THEN <<r>>
    ELSE LET h == Head(sorted) IN
         IF r.yyyymmdd # NA /\ (h.yyyymmdd = NA \/ r.yyyymmdd < h.yyyymmdd)
         THEN <<r>> \o sorted
         ELSE <<h>> \o InsertByDate(r, Tail(sorted))

RECURSIVE SortByDate(_)
\* sort_values("yyyymmdd"): ascending, missing dates last.
SortByDate(rows) ==
    IF rows = <<>> THEN <<>>
    ELSE InsertByDate(rows[Len(rows)], SortByDate(SubSeq(rows, 1, Len(rows) - 1)))

\* The dates of the rows as the plot functions see them (lines 178-179, 257-258).
AsDatetime(data, rows) ==
    IF data.dt THEN rows
    ELSE [i \in 1..Len(rows) |->
            [rows[i] EXCEPT !.yyyymmdd = ToDatetimeCoerce(rows[i].yyyymmdd)]]

(***************************************************************************)
(* rolling(window, min_periods=1, center=True).mean() of one column: the   *)
(* window of position i ends at i + (window-1) \div 2 and holds `window`   *)
(* positions, clipped to the series; the mean is over the values of the    *)
(* window that are not NaN, and NaN when there is none.                    *)
(***************************************************************************)
\* A trailing window (center=False): the window ends at the position itself.
WindowEnd_trailing(i, window, n) == Min2(n, i)

WindowEnd(i, window, n) == Min2(n, i + ((window - 1) \div 2))

WindowStart(i, window, n) == Max2(1, i + ((window - 1) \div 2) - window + 1)

RECURSIVE RollSum(_, _, _)
RollSum(ys, lo, hi) ==
    IF lo > hi THEN 0
    ELSE (IF ys[lo] = NA THEN 0 ELSE ys[lo]) + RollSum(ys, lo + 1, hi)

RECURSIVE RollCount(_, _, _)
RollCount(ys, lo, hi) ==
    IF lo > hi THEN 0
    ELSE (IF ys[lo] = NA THEN 0 ELSE 1) + RollCount(ys, lo + 1, hi)

RollingMean(ys, window) ==
    [i \in 1..Len(ys) |->
        LET lo == WindowStart(i, window, Len(ys))
            hi == WindowEnd(i, window, Len(ys))
            k  == RollCount(ys, lo, hi)
        IN  IF k = 0 THEN NaN ELSE [num |-> RollSum(ys, lo, hi), den |-> k]]

\* The y values of one column of the sorted rows, smoothed or not.
Series(rows, col, smooth, window) ==
    LET ys == [i \in 1..Len(rows) |-> rows[i].m[col]] IN
    IF smooth THEN RollingMean(ys, window)
    ELSE [i \in 1..Len(ys) |-> Num(ys[i])]

(***************************************************************************)
(* The result of a plot function: a figure, or the exception it raises,    *)
(* with the warnings it emitted through st.warning.                        *)
(***************************************************************************)
NoFig == [title |-> "", traces |-> <<>>]

\* msg is the argument of the exception, cols the columns it names.
Raise(type, msg, cols) ==
    [kind |-> type, msg |-> msg, cols |-> cols, fig |-> NoFig, warnings |-> <<>>]

Return(fig, warnings) ==
    [kind |-> "fig", msg |-> "", cols |-> <<>>, fig |-> fig, warnings |-> warnings]

Trace(name, col, rows, smooth, window) ==
    [name |-> name, col |-> col,
     x |-> [i \in 1..Len(rows) |-> rows[i].yyyymmdd],
     y |-> Series(rows, col, smooth, window)]

\* `title or default`: an empty title is replaced by the default.
TitleOr(title, default) == IF title = "" THEN default ELSE title

OrgNameOf(data, rows, id) ==
    IF "organization_name" \in data.cols THEN rows[1].organization_name
    ELSE ToString(id)

(***************************************************************************)
(* plot_monthly_exit_distribution_interactive                              *)
(***************************************************************************)
\* column_map with the "No Exit" column added for every type.
column_map_always_noexit(type, suffix) ==
    << <<"PAdopt_monthly" \o type \o suffix, "Adopt">>,
       <<"PReclaim_monthly" \o type \o suffix, "Reclaim">>,
       <<"PTransfer_monthly" \o type \o suffix, "Transfer">>,
       <<"PNonlive_monthly" \o type \o suffix, "Non-live">>,
       <<"PNoExit_monthly" \o type \o suffix, "No Exit">> >>

\* column_map (lines 182-189), in insertion order: <<column, trace name>>.
column_map(type, suffix) ==
    << <<"PAdopt_monthly" \o type \o suffix, "Adopt">>,
       <<"PReclaim_monthly" \o type \o suffix, "Reclaim">>,
       <<"PTransfer_monthly" \o type \o suffix, "Transfer">>,
       <<"PNonlive_monthly" \o type \o suffix, "Non-live">> >>
    \o (IF type # "_cond"
        THEN << <<"PNoExit_monthly" \o type \o suffix, "No Exit">> >>
        ELSE <<>>)

\* The loop of lines 212-229 over the fixed order of the trace names.
TraceOrder == <<"Adopt", "Reclaim", "Transfer", "Non-live", "No Exit">>

RECURSIVE BuildTraces(_, _, _, _, _)
BuildTraces(names, cmap, rows, smooth, window) ==
    IF names = <<>> THEN <<>>
    ELSE LET hit == SelectSeq(cmap, LAMBDA e : e[2] = Head(names))
             rest == BuildTraces(Tail(names), cmap, rows, smooth, window)
         IN  IF hit = <<>> THEN rest
             ELSE <<Trace(Head(names), hit[1][1], rows, smooth, window)>> \o rest

plot_monthly_exit_distribution_interactive(data, id, type, suffix, title, smooth, window) ==
    IF "organization_id" \notin data.cols
    THEN Raise("KeyError", "organization_id", <<"organization_id">>)
    ELSE
    LET org_data == OrgRows(data, id)
        cmap == column_map(type, suffix)
        keys == [i \in 1..Len(cmap) |-> cmap[i][1]]
        missing == assert_columns_present(data, keys)
    IN
    IF org_data = <<>> THEN Raise("ValueError", "No data for this organization_id", <<>>)
    ELSE IF "yyyymmdd" \notin data.cols THEN Raise("KeyError", "yyyymmdd", <<"yyyymmdd">>)
    ELSE IF missing # <<>> THEN Raise("KeyError", "Missing required columns: " \o Join(missing), missing)
    ELSE
    LET plot_data == SortByDate(AsDatetime(data, org_data))
        name == OrgNameOf(data, org_data, id)
    IN  Return([title |-> TitleOr(title, "Monthly Exit Probabilities for " \o name
                                          \o " (Zeros Replaced)"),
                traces |-> BuildTraces(TraceOrder, cmap, plot_data, smooth, window)],
               <<>>)

(***************************************************************************)
(* plot_inventory_interactive                                              *)
(***************************************************************************)
\* plot_inventory_interactive without the fallback to the base column.
plot_inventory_no_fallback(data, id, suffix, title, smooth, window) ==
    IF "organization_id" \notin data.cols
    THEN Raise("KeyError", "organization_id", <<"organization_id">>)
    ELSE
    LET org_data == OrgRows(data, id)
        variant == "CInventAvg" \o suffix
    IN
    IF org_data = <<>> THEN Raise("ValueError", "No data for this organization_id", <<>>)
    ELSE IF "yyyymmdd" \notin data.cols THEN Raise("KeyError", "yyyymmdd", <<"yyyymmdd">>)
    ELSE IF variant \notin data.cols
    THEN Raise("KeyError", "Missing required column: " \o variant, <<variant>>)
    ELSE Return([title |-> TitleOr(title, "Average Daily Inventory for "
                                          \o OrgNameOf(data, org_data, id)
                                          \o " (Zeros Replaced)"),
                 traces |-> <<Trace("Average Daily Inventory", variant,
                                    SortByDate(AsDatetime(data, org_data)),
                                    smooth, window)>>],
                <<>>)

plot_inventory_interactive(data, id, suffix, title, smooth, window) ==
    IF "organization_id" \notin data.cols
    THEN Raise("KeyError", "organization_id", <<"organization_id">>)
    ELSE
    LET org_data == OrgRows(data, id)
        variant == "CInventAvg" \o suffix
        base == "CInventAvg"
    IN
    IF org_data = <<>> THEN Raise("ValueError", "No data for this organization_id", <<>>)
    ELSE IF "yyyymmdd" \notin data.cols THEN Raise("KeyError", "yyyymmdd", <<"yyyymmdd">>)
    ELSE IF variant \notin data.cols /\ base \notin data.cols
    THEN Raise("KeyError", "Missing required column: " \o variant, <<variant>>)
    ELSE
    LET metric_col == IF variant \in data.cols THEN variant ELSE base
        warnings == IF variant \in data.cols THEN <<>>
                    ELSE <<"Column '" \o variant \o "' not found. Falling back to '"
                           \o base \o "'.">>
        plot_data == SortByDate(AsDatetime(data, org_data))
        name == OrgNameOf(data, org_data, id)
    IN  Return([title |-> TitleOr(title, "Average Daily Inventory for " \o name
                                          \o " (Zeros Replaced)"),
                traces |-> <<Trace("Average Daily Inventory", metric_col, plot_data,
                                   smooth, window)>>],
               warnings)

(***************************************************************************)
(* The slider of line 343 and the default window of line 341.              *)
(***************************************************************************)
MinWindow == 2

MaxWindow == 12

DefaultWindow == 3

\* The suffix the UI fixes (line 337).
suffix == "_zeros_replaced"

(***************************************************************************)
(* Input tables.  The dataset is keyed by organization and month: the rows *)
(* of one organization have different dates.                               *)
(***************************************************************************)
IdCols == {"organization_id", "organization_name", "yyyymmdd"}

InventoryCols == {"CInventAvg", "CInventAvg" \o suffix}

OutcomeCols(type) ==
    {column_map(type, suffix)[i][1] : i \in 1..Len(column_map(type, suffix))}

FullCols == IdCols \cup InventoryCols \cup OutcomeCols("_cond") \cup OutcomeCols("_abs")

MetricColSeq ==
    <<"CInventAvg", "CInventAvg" \o suffix>>
    \o [i \in 1..4 |-> column_map("_cond", suffix)[i][1]]
    \o [i \in 1..5 |-> column_map("_abs", suffix)[i][1]]

\* The cells of a row whose base value is v: every column holds a different number.
Cells(cols, v) ==
    [c \in cols \cap {MetricColSeq[i] : i \in 1..Len(MetricColSeq)} |->
        IF v = NA THEN NA
        ELSE v + 10 * (CHOOSE i \in 1..Len(MetricColSeq) : MetricColSeq[i] = c)]

MkRow(cols, id, name, date, v) ==
    [organization_id |-> id, organization_name |-> name, yyyymmdd |-> date,
     m |-> Cells(cols, v)]

ValChoices == {0, 3, NA}

DateChoices == (1..MaxRows) \cup {NA}

\* Every series of 1..MaxRows rows of organization 1, dates distinct, in any file order.
SeriesRows(cols) ==
    UNION {
        { [i \in 1..n |-> MkRow(cols, 1, "Alpha", d[i], v[i])] :
            d \in { f \in [1..n -> DateChoices] :
                      \A i, j \in 1..n : i # j => f[i] # f[j] },
            v \in [1..n -> ValChoices] }
        : n \in 1..MaxRows }

\* The column sets of the tables that lack a column.
ColumnSets ==
    { FullCols,
      FullCols \ {"CInventAvg" \o suffix},
      FullCols \ InventoryCols,
      FullCols \ {"CInventAvg"},
      FullCols \ {"PReclaim_monthly_cond" \o suffix, "PNonlive_monthly_cond" \o suffix},
      FullCols \ {"PNoExit_monthly_abs" \o suffix},
      FullCols \ {"yyyymmdd"},
      FullCols \ {"organization_name"} }

\* Two organizations, rows interleaved and out of date order; one date is no date.
MixedRows(cols, dt) ==
    << MkRow(cols, 2, "Beta", 2, 3),
       MkRow(cols, 1, "Alpha", 3, 0),
       MkRow(cols, 1, "Alpha", IF dt THEN NA ELSE Unparsed, 3),
       MkRow(cols, 2, "Beta", 1, NA),
       MkRow(cols, 1, "Alpha", 1, 3) >>

MkTable(cols, rows, dt) == [cols |-> cols, rows |-> rows, dt |-> dt]

WindowChoices == MinWindow..Min2(MaxWindow, MaxRows + 1)

SmoothChoices ==
    {[smooth |-> FALSE, window |-> DefaultWindow]}
    \cup {[smooth |-> TRUE, window |-> w] : w \in WindowChoices}

MkCall(fn, data, id, type, sfx, title, sm) ==
    [fn |-> fn, data |-> data, org_id |-> id, type |-> type, suffix |-> sfx,
     title |-> title, smooth |-> sm.smooth, window |-> sm.window]

PlotCalls ==
    { MkCall(f[1], MkTable(FullCols, rows, TRUE), 1, f[2], suffix, "", sm) :
        f \in {<<"inventory", "">>, <<"exit", "_cond">>},
        rows \in SeriesRows(FullCols),
        sm \in SmoothChoices }
    \cup
    { MkCall(f[1], MkTable(cs, MixedRows(cs, dt), dt), id, f[2], sfx, title, sm) :
        f \in {<<"inventory", "">>, <<"exit", "_cond">>, <<"exit", "_abs">>,
               <<"exit", "_raw">>},
        cs \in ColumnSets,
        dt \in BOOLEAN,
        id \in {1, 2, 3},
        sfx \in {suffix, "_interpolated"},
        title \in {"", "Custom title"},
        sm \in {[smooth |-> FALSE, window |-> DefaultWindow],
                [smooth |-> TRUE, window |-> DefaultWindow]} }

(***************************************************************************)
(* SpecPlot: one call of a plot function on a table.                       *)
(***************************************************************************)
AppIdle ==
    /\ pc = "idle"
    /\ auth_passed = "absent"
    /\ password = ""
    /\ drive_cache = <<>>
    /\ df = <<>>
    /\ drive_error = <<>>
    /\ widgets = <<>>
    /\ org_id = <<>>
    /\ org_name = <<>>
    /\ screen = <<>>

InitPlot ==
    /\ AppIdle
    /\ csv_cache = {}
    /\ call \in PlotCalls
    /\ ret = <<>>

CallPlotInventory ==
    /\ ret = <<>>
    /\ call.fn = "inventory"
    /\ ret' = <<plot_inventory_interactive(call.data, call.org_id, call.suffix,
                                           call.title, call.smooth, call.window)>>
    /\ UNCHANGED <<appVars, csv_cache, call>>

CallPlotExit ==
    /\ ret = <<>>
    /\ call.fn = "exit"
    /\ ret' = <<plot_monthly_exit_distribution_interactive(
                    call.data, call.org_id, call.type, call.suffix, call.title,
                    call.smooth, call.window)>>
    /\ UNCHANGED <<appVars, csv_cache, call>>

NextPlot == CallPlotInventory \/ CallPlotExit

SpecPlot == InitPlot /\ [][NextPlot]_vars

(***************************************************************************)
(* What the claims about the plot functions speak of: the call's           *)
(* organization rows, by date.                                             *)
(***************************************************************************)
Called(fn) == ret # <<>> /\ call.fn = fn

\* The indices of the table's rows that belong to the call's organization.
CallOrgIdx ==
    {i \in 1..Len(call.data.rows) : call.data.rows[i].organization_id = call.org_id}

\* The date of row i as a datetime.
CallDate(i) ==
    LET d == call.data.rows[i].yyyymmdd IN
    IF call.data.dt \/ d # Unparsed THEN d ELSE NA

\* The organization's value of column col in the month d.
ValueAt(d, col) ==
    call.data.rows[CHOOSE i \in CallOrgIdx : CallDate(i) = d].m[col]

\* The call got past the organization filter and the date column.
CallHasData ==
    /\ {"organization_id", "yyyymmdd"} \subseteq call.data.cols
    /\ CallOrgIdx # {}

\* x holds the organization's months, each once, ascending with the missing date last.
InDateOrder(x) ==
    /\ Len(x) = Cardinality(CallOrgIdx)
    /\ {x[i] : i \in 1..Len(x)} = {CallDate(i) : i \in CallOrgIdx}
    /\ \A i, j \in 1..Len(x) : i < j => x[i] # NA /\ (x[j] = NA \/ x[i] < x[j])

RECURSIVE SumOver(_, _, _)
\* The sum of the values of column col at the positions S of x that are not missing.
SumOver(S, x, col) ==
    IF S = {} THEN 0
    ELSE LET j == CHOOSE j \in S : TRUE
             v == ValueAt(x[j], col)
         IN  (IF v = NA THEN 0 ELSE v) + SumOver(S \ {j}, x, col)

\* The positions of the centred window of position i: the month, the
\* (window-1) \div 2 months after it and the rest of the window before it.
Centred(i, window, n) ==
    {j \in 1..n : j <= i + ((window - 1) \div 2)
                  /\ j >= i + ((window - 1) \div 2) - (window - 1)}

\* The simple moving average of column col at position i of the months x.
SimpleAverage(i, x, col, window) ==
    LET S == Centred(i, window, Len(x))
        have == {j \in S : ValueAt(x[j], col) # NA}
    IN  IF have = {} THEN NaN
        ELSE [num |-> SumOver(have, x, col), den |-> Cardinality(have)]

RECURSIVE ExponentialAverage(_, _, _, _)
\* The exponential moving average with alpha = 2 / (window + 1), a missing
\* value keeping the average before it.
ExponentialAverage(i, x, col, window) ==
    LET v == ValueAt(x[i], col)
        prev == IF i = 1 THEN NaN ELSE ExponentialAverage(i - 1, x, col, window)
    IN  IF v = NA THEN prev
        ELSE IF IsNaN(prev) THEN Num(v)
        ELSE [num |-> 2 * v * prev.den + (window - 1) * prev.num,
              den |-> (window + 1) * prev.den]

\* A trace plots column col of the organization, unsmoothed, in date order.
PlotsRaw(t) ==
    /\ InDateOrder(t.x)
    /\ Len(t.y) = Len(t.x)
    /\ \A i \in 1..Len(t.x) : SameValue(t.y[i], Num(ValueAt(t.x[i], t.col)))

\* A trace plots the centred simple moving average of column col.
PlotsSimple(t, window) ==
    /\ InDateOrder(t.x)
    /\ Len(t.y) = Len(t.x)
    /\ \A i \in 1..Len(t.x) : SameValue(t.y[i], SimpleAverage(i, t.x, t.col, window))

PlotsExponential(t, window) ==
    /\ InDateOrder(t.x)
    /\ Len(t.y) = Len(t.x)
    /\ \A i \in 1..Len(t.x) :
          SameValue(t.y[i], ExponentialAverage(i, t.x, t.col, window))

RetTraces == ret[1].fig.traces

(***************************************************************************)
(* C4 (as amended): with smoothing off every plotted value of both plot    *)
(* functions is the organization's value of that month, in date order;     *)
(* with smoothing on every plotted value is the centred simple moving      *)
(* average over the window (the mean of the values present among the       *)
(* month, the (window-1) div 2 months after it and the rest of the window  *)
(* before it, cut at the ends of the series), for every window of the      *)
(* slider, and the smoothed series has the months and the number of points *)
(* of the unsmoothed one.  There is no exponential kind.                   *)
(***************************************************************************)
C4_Smoothing ==
    (ret # <<>> /\ ret[1].kind = "fig") =>
        \A k \in 1..Len(RetTraces) :
            IF call.smooth THEN PlotsSimple(RetTraces[k], call.window)
            ELSE PlotsRaw(RetTraces[k])

\* A smoothed figure of three months whose middle value is a mean of three values.
C4_Witness ==
    /\ ret # <<>> /\ ret[1].kind = "fig"
    /\ call.smooth /\ call.window = 3
    /\ Len(RetTraces[1].x) = 3
    /\ RetTraces[1].y[2].den = 3
    /\ ~SameValue(RetTraces[1].y[2], Num(ValueAt(RetTraces[1].x[2], RetTraces[1].col)))

\* C4 as stated: with smoothing on, the plotted values are the moving average
\* of the chosen kind, for the simple kind and for the exponential kind.
C4_Original ==
    (ret # <<>> /\ ret[1].kind = "fig" /\ call.smooth) =>
        \A kind \in {"simple", "exponential"} :
            \A k \in 1..Len(RetTraces) :
                IF kind = "simple" THEN PlotsSimple(RetTraces[k], call.window)
                ELSE PlotsExponential(RetTraces[k], call.window)

(***************************************************************************)
(* C6: plot_monthly_exit_distribution_interactive returns the traces       *)
(* Adopt, Reclaim, Transfer, Non-live for type "_cond" and those four and  *)
(* No Exit for any other type, in that order, each from the column         *)
(* P<Outcome>_monthly<type><suffix> of the organization's rows in date     *)
(* order; when a required column is absent it raises KeyError naming       *)
(* exactly the absent ones and returns no figure.                          *)
(***************************************************************************)
C6_Expected(type, sfx) ==
    LET four == << <<"Adopt", "PAdopt_monthly" \o type \o sfx>>,
                   <<"Reclaim", "PReclaim_monthly" \o type \o sfx>>,
                   <<"Transfer", "PTransfer_monthly" \o type \o sfx>>,
                   <<"Non-live", "PNonlive_monthly" \o type \o sfx>> >>
    IN  IF type = "_cond" THEN four
        ELSE four \o << <<"No Exit", "PNoExit_monthly" \o type \o sfx>> >>

C7_InventoryFallback ==
    Called("inventory") =>
        LET variant == "CInventAvg" \o call.suffix
            hasVariant == variant \in call.data.cols
            hasBase == "CInventAvg" \in call.data.cols
            r == ret[1]
        IN  /\ r.kind = "fig" =>
                 /\ Len(r.fig.traces) = 1
                 /\ r.fig.traces[1].col \in {variant, "CInventAvg"}
            /\ hasVariant => r.warnings = <<>>
            /\ r.kind # "fig" => r.fig = NoFig /\ r.warnings = <<>>
            /\ IF "organization_id" \notin call.data.cols
               THEN r.kind = "KeyError" /\ r.cols = <<"organization_id">>
               ELSE IF CallOrgIdx = {}
               THEN r.kind = "ValueError" /\ r.msg = "No data for this organization_id"
               ELSE IF "yyyymmdd" \notin call.data.cols
               THEN r.kind = "KeyError" /\ r.cols = <<"yyyymmdd">>
               ELSE IF hasVariant
               THEN r.kind = "fig" /\ r.fig.traces[1].col = variant
               ELSE IF hasBase
               THEN /\ r.kind = "fig" /\ r.fig.traces[1].col = "CInventAvg"
                    /\ r.warnings = <<"Column '" \o variant
                                      \o "' not found. Falling back to 'CInventAvg'.">>
               ELSE /\ r.kind = "KeyError" /\ r.cols = <<variant>>
                    /\ r.msg = "Missing required column: " \o variant

\* The fallback: the UI's suffix, no variant column, the base column plotted with a warning.
C7_Witness ==
    /\ Called("inventory") /\ call.suffix = suffix
    /\ ("CInventAvg" \o suffix) \notin call.data.cols
    /\ ret[1].kind = "fig"
    /\ RetTraces[1].col = "CInventAvg"
    /\ ret[1].warnings # <<>>

\* C7 as stated: the variant column is plotted whenever the table has it, the
\* base column with a warning whenever the table has only that one, and
\* KeyError is raised only when the table has neither.
C7_Original ==
    Called("inventory") =>
        LET variant == "CInventAvg" \o call.suffix
            hasVariant == variant \in call.data.cols
            hasBase == "CInventAvg" \in call.data.cols
            r == ret[1]
        IN  /\ hasVariant =>
                 /\ r.kind = "fig" /\ r.fig.traces[1].col = variant
                 /\ r.warnings = <<>>
            /\ (~hasVariant /\ hasBase) =>
                 /\ r.kind = "fig" /\ r.fig.traces[1].col = "CInventAvg"
                 /\ r.warnings # <<>>
            /\ r.kind = "KeyError" => (~hasVariant /\ ~hasBase)
            /\ r.kind = "fig" => r.fig.traces[1].col \in {variant, "CInventAvg"}

(***************************************************************************)
(* SpecCsv: calls of _read_csv_bytes on one input.  Each strategy fails,   *)
(* or parses the bytes into a table of its own (a wrong delimiter gives a  *)
(* table of one column).                                                   *)
(***************************************************************************)
ParseOk(table) == [ok |-> TRUE, df |-> <<table>>, error |-> ""]

ParseError(error) == [ok |-> FALSE, df |-> <<>>, error |-> error]

CsvOutcomes(k) ==
    { ParseError("error of " \o Strategies[k]),
      ParseOk(MkTable({"organization_id;organization_name"}, <<>>, FALSE)),
      ParseOk(MkTable({"organization_id", "parsed by " \o Strategies[k]}, <<>>, FALSE)) }

RawChoices ==
    { <<a, b, c, d>> : a \in CsvOutcomes(1), b \in CsvOutcomes(2),
                       c \in CsvOutcomes(3), d \in CsvOutcomes(4) }

InitCsv ==
    /\ AppIdle
    /\ csv_cache = {}
    /\ call \in {[fn |-> "read_csv", raw |-> raw] : raw \in RawChoices}
    /\ ret = <<>>

CallReadCsv ==
    /\ call.fn = "read_csv"
    /\ ret' = <<_read_csv_bytes(csv_cache, call.raw)>>
    /\ csv_cache' = CacheAfter(csv_cache, call.raw)
    /\ UNCHANGED <<appVars, call>>

NextCsv == CallReadCsv

SpecCsv == InitCsv /\ [][NextCsv]_vars

(***************************************************************************)
(* C2: _read_csv_bytes tries the C engine, the python engine with a comma, *)
(* the python engine with the delimiter autodetected and the python engine *)
(* with a tab, in this order; it returns the table of the first strategy   *)
(* that succeeds and tries none after it; it raises only when all four     *)
(* fail, and then the exception of the tab-separated strategy.             *)
(***************************************************************************)
C2_Order == <<"c", "python_comma", "python_sniff", "python_tab">>

C2_Strategies ==
    Called("read_csv") =>
        LET raw == call.raw
            r == ret[1]
            oks == {k \in 1..4 : raw[k].ok}
            first == CHOOSE k \in oks : \A j \in oks : k <= j
        IN  /\ r.tried # <<>> =>
                 r.tried = SubSeq(C2_Order, 1, IF oks = {} THEN 4 ELSE first)
            /\ oks # {} => r.kind = "ok" /\ r.df = raw[first].df
            /\ oks = {} => r.kind = "raise" /\ r.error = raw[4].error
                           /\ r.error = "error of python_tab"
            /\ r.kind = "raise" => oks = {} /\ r.tried = C2_Order

\* The first two strategies failed and the third parsed the bytes.
C2_Witness ==
    /\ Called("read_csv")
    /\ ~call.raw[1].ok /\ ~call.raw[2].ok /\ call.raw[3].ok /\ call.raw[4].ok
    /\ ret[1].kind = "ok"
    /\ ret[1].tried = <<"c", "python_comma", "python_sniff">>
    /\ ret[1].df # call.raw[4].df

(***************************************************************************)
(* The application session.                                                *)
(*                                                                         *)
(* An element of the screen is [kind, text, fig]: the Streamlit call, its  *)
(* label or message, and the figure of a chart.                            *)
(***************************************************************************)
El(kind, text) == [kind |-> kind, text |-> text, fig |-> NoFig]

Chart(fig) == [kind |-> "plotly_chart", text |-> fig.title, fig |-> fig]

Kinds(scr) == {scr[i].kind : i \in 1..Len(scr)}

Shows(scr, kind, text) ==
    \E i \in 1..Len(scr) : scr[i].kind = kind /\ scr[i].text = text

\* st.secrets["auth"]["password"]
Secret == "s3cret"

PasswordChoices == {Secret, "wrong", ""}

DefaultWidgets ==
    [uploaded |-> <<>>, mode |-> "By Name", name |-> <<>>, id_input |-> "",
     smooth |-> FALSE, window |-> DefaultWindow, show_inventory |-> TRUE,
     show_conditional |-> TRUE, show_absolute |-> TRUE, button |-> FALSE]

\* A widget that a run does not render loses its state.
ForgetUnrendered(w, scr) ==
    LET has(kind, text) == Shows(scr, kind, text) IN
    [uploaded |-> IF "file_uploader" \in Kinds(scr) THEN w.uploaded
                  ELSE DefaultWidgets.uploaded,
     mode |-> IF "radio" \in Kinds(scr) THEN w.mode ELSE DefaultWidgets.mode,
     name |-> IF "selectbox" \in Kinds(scr) THEN w.name ELSE DefaultWidgets.name,
     id_input |-> IF has("text_input", "Enter Organization ID") THEN w.id_input
                  ELSE DefaultWidgets.id_input,
     smooth |-> IF has("checkbox", "Smoothed") THEN w.smooth ELSE DefaultWidgets.smooth,
     window |-> IF "slider" \in Kinds(scr) THEN w.window ELSE DefaultWidgets.window,
     show_inventory |-> IF has("checkbox", "Average Daily Inventory")
                        THEN w.show_inventory ELSE DefaultWidgets.show_inventory,
     show_conditional |-> IF has("checkbox", "Animals with an outcome (conditional)")
                          THEN w.show_conditional ELSE DefaultWidgets.show_conditional,
     show_absolute |-> IF has("checkbox", "All animals (absolute)")
                       THEN w.show_absolute ELSE DefaultWidgets.show_absolute,
     button |-> w.button]

PasswordShown(scr) ==
    \E i \in 1..Len(scr) :
        scr[i].kind = "text_input"
        /\ scr[i].text \in {"Enter password and press Enter", "Enter password"}

\* The run ends (st.stop(), an uncaught exception, or the end of the script).
EndRun(scr) ==
    /\ pc' = "idle"
    /\ screen' = scr
    /\ widgets' = ForgetUnrendered(widgets, scr)
    /\ password' = IF PasswordShown(scr) THEN password ELSE ""

(***************************************************************************)
(* check_password (lines 14-40)                                            *)
(***************************************************************************)
\* The on_change callback: the new value of session_state["auth_passed"].
password_entered(state, entered) ==
    IF entered = Secret THEN "True" ELSE "False"

\* check_password without the st.stop() of line 37.
check_password_no_stop(state) ==
    IF state = "absent"
    THEN [stop |-> TRUE,
          screen |-> <<El("text_input", "Enter password and press Enter")>>]
    ELSE IF state # "True"
    THEN [stop |-> FALSE,
          screen |-> <<El("text_input", "Enter password"),
                       El("error", "Incorrect password")>>]
    ELSE [stop |-> FALSE, screen |-> <<>>]

\* check_password that keeps the password input on the page after the check passed.
check_password_keeps_input(state) ==
    IF state = "absent"
    THEN [stop |-> TRUE,
          screen |-> <<El("text_input", "Enter password and press Enter")>>]
    ELSE IF state # "True"
    THEN [stop |-> TRUE,
          screen |-> <<El("text_input", "Enter password"),
                       El("error", "Incorrect password")>>]
    ELSE [stop |-> FALSE, screen |-> <<El("text_input", "Enter password")>>]

\* What check_password renders, and whether it stops the run.
check_password(state) ==
    IF state = "absent"
    THEN [stop |-> TRUE,
          screen |-> <<El("text_input", "Enter password and press Enter")>>]
    ELSE IF state # "True"
    THEN [stop |-> TRUE,
          screen |-> <<El("text_input", "Enter password"),
                       El("error", "Incorrect password")>>]
    ELSE [stop |-> FALSE, screen |-> <<>>]

CheckPassword ==
    /\ pc = "check_password"
    /\ LET r == check_password(auth_passed) IN
       IF r.stop THEN EndRun(r.screen)
       ELSE /\ pc' = "load"
            /\ screen' = r.screen
            /\ UNCHANGED <<widgets, password>>
    /\ UNCHANGED <<auth_passed, drive_cache, df, drive_error, org_id, org_name,
                   csv_cache, call, ret>>

(***************************************************************************)
(* load_data_from_drive (lines 94-110) and the module's try (113-119)      *)
(***************************************************************************)
HttpErrorText ==
    "Could not load CSV file from Google Drive (HTTP error). Make sure it is shared publicly."

\* What load_data_from_drive does with what urlopen gives: an HTTPError, another
\* exception of the download, or the bytes.  st.stop() raises StopException,
\* which is no Exception: neither line 109 nor line 117 catches it.
load_data_from_drive(cache, got) ==
    IF got.kind = "HTTPError"
    THEN [kind |-> "stop", df |-> <<>>, error |-> "",
          screen |-> <<El("error", HttpErrorText)>>]
    ELSE IF got.kind = "URLError"
    THEN [kind |-> "raise", df |-> <<>>, error |-> got.error, screen |-> <<>>]
    ELSE LET r == _read_csv_bytes(cache, got.raw) IN
         [kind |-> r.kind, df |-> r.df, error |-> r.error, screen |-> <<>>]

(***************************************************************************)
(* The tables of the session: one per column set, with two organizations,  *)
(* an organization whose id is no number, and a row without a name.        *)
(***************************************************************************)
AppRows(cols) ==
    << MkRow(cols, 2, "Beta", 2, 3),
       MkRow(cols, 1, "Alpha", 3, 0),
       MkRow(cols, Unparsed, "Gamma", 1, 3),
       MkRow(cols, 1, "Alpha", Unparsed, 3),
       MkRow(cols, 2, NameNaN, 1, NA),
       MkRow(cols, 1, "Alpha", 1, 3) >>

AppTables ==
    { MkTable(cs, AppRows(cs), FALSE) :
        cs \in ColumnSets \cup {FullCols \ {"organization_id"}} }
    \cup { MkTable(FullCols, SubSeq(AppRows(FullCols), 1, 2), FALSE) }

RawOf(table) == <<ParseOk(table), ParseOk(table), ParseOk(table), ParseOk(table)>>

\* A file only the python engine parses.
RawSecond(table) ==
    <<ParseError("error of c"), ParseOk(table), ParseOk(table), ParseOk(table)>>

RawBad == [k \in 1..4 |-> ParseError("error of " \o Strategies[k])]

DriveAnswers ==
    { [kind |-> "HTTPError", error |-> "HTTP Error 404: Not Found", raw |-> RawBad],
      [kind |-> "URLError", error |-> "<urlopen error timed out>", raw |-> RawBad],
      [kind |-> "bytes", error |-> "", raw |-> RawBad] }
    \cup { [kind |-> "bytes", error |-> "", raw |-> RawOf(t)] : t \in AppTables }

UploadChoices ==
    { RawBad,
      RawSecond(MkTable(FullCols, AppRows(FullCols), FALSE)) }

LoadData ==
    /\ pc = "load"
    /\ IF drive_cache # <<>>
       THEN /\ df' = drive_cache
            /\ pc' = "cleanup"
            /\ UNCHANGED <<drive_cache, drive_error, csv_cache, screen, widgets, password>>
       ELSE \E got \in DriveAnswers :
              LET r == load_data_from_drive(csv_cache, got) IN
              /\ csv_cache' = IF got.kind = "bytes" THEN CacheAfter(csv_cache, got.raw)
                              ELSE csv_cache
              /\ IF r.kind = "stop"
                 THEN /\ EndRun(screen \o r.screen)
                      /\ UNCHANGED <<df, drive_cache, drive_error>>
                 ELSE IF r.kind = "raise"
                 THEN /\ drive_error' = <<r.error>>
                      /\ df' = <<>>
                      /\ pc' = "upload"
                      /\ screen' = screen \o r.screen
                      /\ UNCHANGED <<drive_cache, widgets, password>>
                 ELSE /\ df' = r.df
                      /\ drive_cache' = r.df
                      /\ pc' = "cleanup"
                      /\ UNCHANGED <<drive_error, screen, widgets, password>>
    /\ UNCHANGED <<auth_passed, org_id, org_name, call, ret>>

(***************************************************************************)
(* The manual upload (lines 121-135)                                       *)
(***************************************************************************)
UploadPrompt ==
    <<El("error", "Could not parse the Google Drive CSV cleanly.\n\nDetails: "
                  \o drive_error[1] \o "\n\nPlease upload the CSV manually below."
                  \o " The app will try multiple parsing strategies."),
      El("file_uploader", "Upload CSV")>>

Upload ==
    /\ pc = "upload"
    /\ IF widgets.uploaded = <<>>
       THEN /\ EndRun(screen \o UploadPrompt)
            /\ UNCHANGED <<df, csv_cache>>
       ELSE LET r == _read_csv_bytes(csv_cache, widgets.uploaded[1]) IN
            /\ csv_cache' = CacheAfter(csv_cache, widgets.uploaded[1])
            /\ IF r.kind = "ok"
               THEN /\ df' = r.df
                    /\ pc' = "cleanup"
                    /\ screen' = screen \o UploadPrompt
                                 \o <<El("success", "File uploaded and parsed successfully.")>>
                    /\ UNCHANGED <<widgets, password>>
               ELSE /\ EndRun(screen \o UploadPrompt
                              \o <<El("error", "Still couldn't parse the CSV: " \o r.error)>>)
                    /\ UNCHANGED df
    /\ UNCHANGED <<auth_passed, drive_cache, drive_error, org_id, org_name, call, ret>>

(***************************************************************************)
(* The cleanup (lines 142-151)                                             *)
(***************************************************************************)
BasicCleanup(t) ==
    [cols |-> t.cols,
     dt |-> IF "yyyymmdd" \in t.cols THEN TRUE ELSE t.dt,
     rows |-> [i \in 1..Len(t.rows) |->
        [organization_id |->
            IF "organization_id" \in t.cols
            THEN ToNumericCoerce(t.rows[i].organization_id)
            ELSE t.rows[i].organization_id,
         organization_name |->
            IF "organization_name" \in t.cols
            THEN FillNaName(t.rows[i].organization_name)
            ELSE t.rows[i].organization_name,
         yyyymmdd |->
            IF "yyyymmdd" \in t.cols /\ ~t.dt
            THEN ToDatetimeCoerce(t.rows[i].yyyymmdd)
            ELSE t.rows[i].yyyymmdd,
         m |-> t.rows[i].m]]]

Cleanup ==
    /\ pc = "cleanup"
    /\ df' = <<BasicCleanup(df[1])>>
    /\ pc' = "select"
    /\ UNCHANGED <<auth_passed, password, drive_cache, drive_error, widgets, org_id,
                   org_name, screen, csv_cache, call, ret>>

(***************************************************************************)
(* The organization selection (lines 299-334)                              *)
(***************************************************************************)
\* The names of the tables in the order of Python's sorted().
NameOrder == <<"", "Alpha", "Beta", "Gamma", NameNaN>>

\* sorted(df["organization_name"].dropna().unique())
SortedNames(data) ==
    SelectSeq(NameOrder,
              LAMBDA n : n # NameNaN
                         /\ \E i \in 1..Len(data.rows) : data.rows[i].organization_name = n)

\* df.loc[df["organization_name"] == name, "organization_id"].dropna(), in file order.
IdsByName(data, name) ==
    LET rows == SelectSeq(data.rows, LAMBDA r : r.organization_name = name
                                                /\ r.organization_id # NA)
    IN  [i \in 1..Len(rows) |-> rows[i].organization_id]

\* The names of all the rows: the filter on the id forgotten.
NamesById_unfiltered(data, id) ==
    LET rows == SelectSeq(data.rows, LAMBDA r : r.organization_name # NameNaN)
    IN  [i \in 1..Len(rows) |-> rows[i].organization_name]

\* df[df["organization_id"] == id]["organization_name"].dropna(), in file order.
NamesById(data, id) ==
    LET rows == SelectSeq(data.rows, LAMBDA r : r.organization_id = id
                                                /\ r.organization_name # NameNaN)
    IN  [i \in 1..Len(rows) |-> rows[i].organization_name]

IdInputs == {"", "abc", "1", " 2 ", "7"}

\* int(org_id_input) on the inputs of the model.
PyInt(text) ==
    CASE text = "1" -> [ok |-> TRUE, value |-> 1]
      [] text = " 2 " -> [ok |-> TRUE, value |-> 2]
      [] text = "7" -> [ok |-> TRUE, value |-> 7]
      [] OTHER -> [ok |-> FALSE, value |-> 0]

Selected(kind, id, name, scr, choice) ==
    [kind |-> kind, org_id |-> id, org_name |-> name, screen |-> scr, name |-> choice]

\* The selection section: what it renders, how it ends ("go" on, "stop", or an
\* uncaught "exception"), and org_id and org_name after it.
select_org(data, w) ==
    LET head == <<El("title", "Shelter Dashboard"),
                  El("radio", "Choose organization selection method:")>>
    IN
    IF w.mode = "By Name"
    THEN LET missing == assert_columns_present(data, <<"organization_name", "organization_id">>)
             options == SortedNames(data)
             choice == IF w.name # <<>> /\ \E i \in 1..Len(options) : options[i] = w.name[1]
                       THEN w.name
                       ELSE IF options = <<>> THEN <<>> ELSE <<options[1]>>
             box == head \o <<El("selectbox", "Select Organization Name")>>
         IN  IF missing # <<>>
             THEN Selected("exception", <<>>, <<>>,
                           head \o <<El("exception", "KeyError: Missing required columns: "
                                                     \o Join(missing))>>, w.name)
             ELSE IF choice = <<>> \/ choice = <<"">>
             THEN Selected("go", <<>>, choice, box, choice)
             ELSE LET ids == IdsByName(data, choice[1]) IN
                  IF ids = <<>>
                  THEN Selected("stop", <<>>, choice,
                                box \o <<El("warning", "No organization_id found for that name.")>>,
                                choice)
                  ELSE Selected("go", <<ids[1]>>, choice, box, choice)
    ELSE LET missing == assert_columns_present(data, <<"organization_id", "organization_name">>)
             box == head \o <<El("text_input", "Enter Organization ID")>>
             n == PyInt(w.id_input)
         IN  IF missing # <<>>
             THEN Selected("exception", <<>>, <<>>,
                           head \o <<El("exception", "KeyError: Missing required columns: "
                                                     \o Join(missing))>>, w.name)
             ELSE IF w.id_input = ""
             THEN Selected("stop", <<>>, <<>>,
                           box \o <<El("info", "Please enter an organization ID.")>>, w.name)
             ELSE IF ~n.ok
             THEN Selected("stop", <<>>, <<>>,
                           box \o <<El("error", "Please enter a valid numeric organization ID.")>>,
                           w.name)
             ELSE LET matches == NamesById(data, n.value) IN
                  IF matches = <<>>
                  THEN Selected("stop", <<n.value>>, <<>>,
                                box \o <<El("warning", "No organization found for that ID.")>>,
                                w.name)
                  ELSE Selected("go", <<n.value>>, <<matches[1]>>,
                                box \o <<El("success", "Found organization: " \o matches[1])>>,
                                w.name)

SelectOrg ==
    /\ pc = "select"
    /\ LET r == select_org(df[1], widgets) IN
       /\ org_id' = r.org_id
       /\ org_name' = r.org_name
       /\ IF r.kind = "go"
          THEN /\ pc' = "controls"
               /\ screen' = screen \o r.screen
               /\ widgets' = [widgets EXCEPT !.name = r.name]
               /\ UNCHANGED password
          ELSE EndRun(screen \o r.screen)
    /\ UNCHANGED <<auth_passed, drive_cache, df, drive_error, csv_cache, call, ret>>

(***************************************************************************)
(* The smoothing and plot selection widgets (lines 336-349)                *)
(***************************************************************************)
Controls ==
    /\ pc = "controls"
    /\ screen' = screen
            \o <<El("checkbox", "Smoothed")>>
            \o (IF widgets.smooth
                THEN <<El("slider", "Smoothing window (months)")>> ELSE <<>>)
            \o <<El("subheader", "Choose plots to display"),
                 El("checkbox", "Average Daily Inventory"),
                 El("checkbox", "Animals with an outcome (conditional)"),
                 El("checkbox", "All animals (absolute)")>>
    /\ pc' = "render"
    /\ UNCHANGED <<auth_passed, password, drive_cache, df, drive_error, widgets, org_id,
                   org_name, csv_cache, call, ret>>

\* The module's window: 3, or the slider's value when smoothing is on.
WindowOf(w) == IF w.smooth THEN w.window ELSE DefaultWindow

(***************************************************************************)
(* The render section (lines 351-399)                                      *)
(***************************************************************************)
\* Every chart, whatever the checkboxes say.
SelectedJobs_all(w) == <<"inventory", "conditional", "absolute">>

\* The charts the checkboxes select, in the order of the ifs of lines 354-390.
SelectedJobs(w) ==
    SelectSeq(<<"inventory", "conditional", "absolute">>,
              LAMBDA j : \/ j = "inventory" /\ w.show_inventory
                         \/ j = "conditional" /\ w.show_conditional
                         \/ j = "absolute" /\ w.show_absolute)

\* The call of one chart's plot function, with the title the section builds.
PlotJob(job, data, id, name, w) ==
    IF job = "inventory"
    THEN plot_inventory_interactive(
             data, id, suffix,
             "Average Daily Inventory for " \o name \o " (Zeros Replaced)",
             w.smooth, WindowOf(w))
    ELSE IF job = "conditional"
    THEN plot_monthly_exit_distribution_interactive(
             data, id, "_cond", suffix,
             "Conditional (Animals with an outcome) Probabilities for " \o name
                 \o " (Zeros Replaced)",
             w.smooth, WindowOf(w))
    ELSE plot_monthly_exit_distribution_interactive(
             data, id, "_abs", suffix,
             "Absolute (All animals) Probabilities for " \o name \o " (Zeros Replaced)",
             w.smooth, WindowOf(w))

\* str() of a KeyError: the repr of its argument, in double quotes when the
\* argument holds a single quote (the list of columns).
KeyErrorStr(r) ==
    IF r.msg = "Missing required columns: " \o Join(r.cols)
    THEN "\"" \o r.msg \o "\""
    ELSE "'" \o r.msg \o "'"

\* The st.error of the except clauses of lines 394-399.
ErrorOf(r) ==
    IF r.kind = "KeyError"
    THEN El("error", "Data is missing required columns for this view: "
                     \o KeyErrorStr(r))
    ELSE IF r.kind = "ValueError" THEN El("error", r.msg)
    ELSE El("error", "Unexpected error: " \o r.msg)

Warnings(r) == [i \in 1..Len(r.warnings) |-> El("warning", r.warnings[i])]

RECURSIVE RenderFrom_continue(_, _, _, _, _)
\* Each chart in a try of its own: a failure does not end the section.
RenderFrom_continue(jobs, data, id, name, w) ==
    IF jobs = <<>> THEN <<>>
    ELSE LET r == PlotJob(Head(jobs), data, id, name, w) IN
         Warnings(r)
         \o (IF r.kind = "fig" THEN <<Chart(r.fig)>> ELSE <<ErrorOf(r)>>)
         \o RenderFrom_continue(Tail(jobs), data, id, name, w)

RECURSIVE RenderFrom(_, _, _, _, _)
\* The body of the try from one chart on: the first exception ends it.
RenderFrom(jobs, data, id, name, w) ==
    IF jobs = <<>> THEN <<>>
    ELSE LET r == PlotJob(Head(jobs), data, id, name, w) IN
         Warnings(r)
         \o (IF r.kind = "fig"
             THEN <<Chart(r.fig)>> \o RenderFrom(Tail(jobs), data, id, name, w)
             ELSE <<ErrorOf(r)>>)

\* An organization name as the f-strings of the titles print it.
NameText(name) == IF name = <<>> THEN "None" ELSE name[1]

render_section(data, id, name, w) ==
    IF id = <<>> THEN <<>>
    ELSE <<El("button", "Show Plot(s)")>>
         \o (IF ~w.button THEN <<>>
             ELSE IF SelectedJobs(w) = <<>>
             THEN <<El("info", "Select at least one plot to display.")>>
             ELSE RenderFrom(SelectedJobs(w), data, id[1], NameText(name), w))

Render ==
    /\ pc = "render"
    /\ EndRun(screen \o render_section(df[1], org_id, org_name, widgets))
    /\ UNCHANGED <<auth_passed, drive_cache, df, drive_error, org_id, org_name,
                   csv_cache, call, ret>>

(***************************************************************************)
(* The user.  An interaction changes one widget of the page and starts a   *)
(* run of the script; the button is True in the run its click starts.      *)
(***************************************************************************)
StartRun(w) ==
    /\ pc = "idle"
    /\ pc' = "check_password"
    /\ widgets' = w
    /\ screen' = <<>>
    /\ df' = <<>>
    /\ drive_error' = <<>>
    /\ org_id' = <<>>
    /\ org_name' = <<>>
    /\ UNCHANGED <<drive_cache, csv_cache, call, ret>>

Released == [widgets EXCEPT !.button = FALSE]

\* The password input's on_change: password_entered runs before the script.
EnterPassword ==
    /\ PasswordShown(screen)
    /\ \E p \in PasswordChoices :
          /\ p # password
          /\ password' = p
          /\ auth_passed' = password_entered(auth_passed, p)
    /\ StartRun(Released)

UploadFile ==
    /\ "file_uploader" \in Kinds(screen)
    /\ \E f \in {<<>>} \cup {<<raw>> : raw \in UploadChoices} :
          /\ f # widgets.uploaded
          /\ StartRun([Released EXCEPT !.uploaded = f])
    /\ UNCHANGED <<auth_passed, password>>

ChooseMode ==
    /\ "radio" \in Kinds(screen)
    /\ \E mode \in {"By Name", "By ID"} :
          /\ mode # widgets.mode
          /\ StartRun([Released EXCEPT !.mode = mode])
    /\ UNCHANGED <<auth_passed, password>>

ChooseName ==
    /\ "selectbox" \in Kinds(screen)
    /\ \E i \in 1..Len(SortedNames(df[1])) :
          /\ <<SortedNames(df[1])[i]>> # widgets.name
          /\ StartRun([Released EXCEPT !.name = <<SortedNames(df[1])[i]>>])
    /\ UNCHANGED <<auth_passed, password>>

TypeOrgId ==
    /\ Shows(screen, "text_input", "Enter Organization ID")
    /\ \E text \in IdInputs :
          /\ text # widgets.id_input
          /\ StartRun([Released EXCEPT !.id_input = text])
    /\ UNCHANGED <<auth_passed, password>>

ToggleSmooth ==
    /\ Shows(screen, "checkbox", "Smoothed")
    /\ StartRun([Released EXCEPT !.smooth = ~widgets.smooth])
    /\ UNCHANGED <<auth_passed, password>>

MoveSlider ==
    /\ "slider" \in Kinds(screen)
    /\ \E win \in WindowChoices :
          /\ win # widgets.window
          /\ StartRun([Released EXCEPT !.window = win])
    /\ UNCHANGED <<auth_passed, password>>

TogglePlot ==
    /\ Shows(screen, "checkbox", "Average Daily Inventory")
    /\ \E k \in {"inventory", "conditional", "absolute"} :
          StartRun([Released EXCEPT
              !.show_inventory = IF k = "inventory" THEN ~@ ELSE @,
              !.show_conditional = IF k = "conditional" THEN ~@ ELSE @,
              !.show_absolute = IF k = "absolute" THEN ~@ ELSE @])
    /\ UNCHANGED <<auth_passed, password>>

PressButton ==
    /\ "button" \in Kinds(screen)
    /\ StartRun([widgets EXCEPT !.button = TRUE])
    /\ UNCHANGED <<auth_passed, password>>

Init ==
    /\ pc = "check_password"
    /\ auth_passed = "absent"
    /\ password = ""
    /\ drive_cache = <<>>
    /\ df = <<>>
    /\ drive_error = <<>>
    /\ widgets = DefaultWidgets
    /\ org_id = <<>>
    /\ org_name = <<>>
    /\ screen = <<>>
    /\ csv_cache = {}
    /\ call = <<>>
    /\ ret = <<>>

Next ==
    \/ CheckPassword
    \/ LoadData
    \/ Upload
    \/ Cleanup
    \/ SelectOrg
    \/ Controls
    \/ Render
    \/ EnterPassword
    \/ UploadFile
    \/ ChooseMode
    \/ ChooseName
    \/ TypeOrgId
    \/ ToggleSmooth
    \/ MoveSlider
    \/ TogglePlot
    \/ PressButton

Spec == Init /\ [][Next]_vars

(***************************************************************************)
(* What the claims about the session speak of.                             *)
(***************************************************************************)
\* The run has got past check_password.
PastGate == pc \in {"load", "upload", "cleanup", "select", "controls", "render"}

\* The page of the password check: the input, and the error after a wrong password.
GateKinds(scr) ==
    \A i \in 1..Len(scr) :
        \/ scr[i].kind = "text_input"
           /\ scr[i].text \in {"Enter password and press Enter", "Enter password"}
        \/ scr[i].kind = "error" /\ scr[i].text = "Incorrect password"

\* The run reached the render section with an organization: it rendered the button.
ButtonAt == CHOOSE i \in 1..Len(screen) : screen[i].kind = "button"

RenderedRun == pc = "idle" /\ "button" \in Kinds(screen)

\* What the render section put on the page after the button.
AfterButton == SubSeq(screen, ButtonAt + 1, Len(screen))

ChartsShown == SelectSeq(screen, LAMBDA e : e.kind = "plotly_chart")

ErrorsAfterButton == SelectSeq(AfterButton, LAMBDA e : e.kind = "error")

(***************************************************************************)
(* C1: the CSV load, the widgets of the dashboard and the charts are       *)
(* reached only with auth_passed True; auth_passed changes only in the     *)
(* password callback, to True when the entered password is the secret and  *)
(* to False otherwise; with auth_passed absent or False the run shows the  *)
(* password input and stops.                                               *)
(***************************************************************************)
C1_Gate ==
    /\ [](PastGate => auth_passed = "True")
    /\ [](auth_passed # "True" => GateKinds(screen))
    /\ []((pc = "idle" /\ auth_passed # "True") => PasswordShown(screen))
    /\ [][auth_passed' # auth_passed =>
            /\ pc = "idle" /\ PasswordShown(screen) /\ password' # password
            /\ auth_passed' = IF password' = Secret THEN "True" ELSE "False"]_vars
    /\ [][(pc = "idle" /\ pc' = "check_password" /\ password' # password) =>
            auth_passed' = IF password' = Secret THEN "True" ELSE "False"]_vars

\* A chart is on the page of a session that entered the secret.
C1_Witness ==
    /\ auth_passed = "True" /\ password = ""
    /\ "plotly_chart" \in Kinds(screen)

(***************************************************************************)
(* C3 as stated: whenever the load from Drive fails in a run (a download   *)
(* error, an HTTP error, or every parsing strategy failing) the run shows  *)
(* the upload widget, and the dashboard is reached only with a table.      *)
(***************************************************************************)
DriveFailed == drive_error # <<>> \/ Shows(screen, "error", HttpErrorText)

C3_Original ==
    /\ (pc = "idle" /\ auth_passed = "True" /\ DriveFailed) =>
           "file_uploader" \in Kinds(screen)
    /\ pc \in {"cleanup", "select", "controls", "render"} => df # <<>>

\* The rest of C3, which holds: after a download error or a failure of every
\* parsing strategy the run shows the upload widget; an HTTP error ends the run
\* with its message alone.
C3_OtherFailures ==
    /\ (pc = "idle" /\ auth_passed = "True" /\ drive_error # <<>>) =>
           "file_uploader" \in Kinds(screen)
    /\ pc \in {"cleanup", "select", "controls", "render"} => df # <<>>
    /\ Shows(screen, "error", HttpErrorText) =>
           pc = "idle" /\ screen = <<El("error", HttpErrorText)>>

(***************************************************************************)
(* C5: in a run started by the button, with an organization and no error,  *)
(* the inventory, conditional and absolute charts are on the page exactly  *)
(* when their checkboxes are selected, in this order, each the figure of   *)
(* the selected organization for the suffix "_zeros_replaced"; with none   *)
(* selected there is no chart and the message "Select at least one plot to *)
(* display."; without the click, or without an organization, the render    *)
(* section puts nothing on the page.                                       *)
(***************************************************************************)
C5_Wanted ==
    (IF widgets.show_inventory
     THEN <<plot_inventory_interactive(
                df[1], org_id[1], "_zeros_replaced",
                "Average Daily Inventory for " \o NameText(org_name) \o " (Zeros Replaced)",
                widgets.smooth, WindowOf(widgets))>>
     ELSE <<>>)
    \o (IF widgets.show_conditional
        THEN <<plot_monthly_exit_distribution_interactive(
                   df[1], org_id[1], "_cond", "_zeros_replaced",
                   "Conditional (Animals with an outcome) Probabilities for "
                       \o NameText(org_name) \o " (Zeros Replaced)",
                   widgets.smooth, WindowOf(widgets))>>
        ELSE <<>>)
    \o (IF widgets.show_absolute
        THEN <<plot_monthly_exit_distribution_interactive(
                   df[1], org_id[1], "_abs", "_zeros_replaced",
                   "Absolute (All animals) Probabilities for "
                       \o NameText(org_name) \o " (Zeros Replaced)",
                   widgets.smooth, WindowOf(widgets))>>
        ELSE <<>>)

C5_Plots ==
    /\ (RenderedRun /\ widgets.button /\ ErrorsAfterButton = <<>>) =>
          /\ Len(ChartsShown) = Len(C5_Wanted)
          /\ \A i \in 1..Len(ChartsShown) :
                /\ C5_Wanted[i].kind = "fig"
                /\ ChartsShown[i].fig = C5_Wanted[i].fig
          /\ Shows(screen, "info", "Select at least one plot to display.")
                <=> (~widgets.show_inventory /\ ~widgets.show_conditional
                     /\ ~widgets.show_absolute)
    /\ (RenderedRun /\ ~widgets.button) => AfterButton = <<>>
    /\ (pc = "idle" /\ "button" \notin Kinds(screen)) =>
          /\ ChartsShown = <<>>
          /\ ~Shows(screen, "info", "Select at least one plot to display.")
    /\ (pc = "idle" /\ org_id = <<>>) => "button" \notin Kinds(screen)

\* The click with the conditional chart deselected: the inventory chart, then the absolute one.
C5_Witness ==
    /\ RenderedRun /\ widgets.button /\ ErrorsAfterButton = <<>>
    /\ widgets.show_inventory /\ ~widgets.show_conditional /\ widgets.show_absolute
    /\ Len(ChartsShown) = 2
    /\ Len(ChartsShown[2].fig.traces) = 5

(***************************************************************************)
(* C8: once auth_passed is True it stays True: the password input is not   *)
(* rendered any more and nothing resets or removes auth_passed; after a    *)
(* wrong password every run shows "Incorrect password" and stops, until    *)
(* the secret is entered.                                                  *)
(***************************************************************************)
C8_StaysPassed ==
    /\ [][auth_passed = "True" => auth_passed' = "True"]_vars
    /\ [](auth_passed = "True" => ~PasswordShown(screen))
    /\ []((pc = "idle" /\ auth_passed = "False") =>
             screen = <<El("text_input", "Enter password"),
                        El("error", "Incorrect password")>>)
    /\ [](auth_passed = "False" => pc \in {"idle", "check_password"})
    /\ [][(auth_passed = "False" /\ auth_passed' # "False") =>
             password' = Secret /\ auth_passed' = "True"]_vars

\* A later run of a session that passed the check: the user has switched to "By ID".
C8_Witness ==
    /\ auth_passed = "True"
    /\ pc = "idle"
    /\ widgets.mode = "By ID"
    /\ widgets.id_input = "1"

(***************************************************************************)
(* C9: when the run reaches the render section with an org_id, the table   *)
(* has a row of that organization: by name, org_id is the first id among   *)
(* the rows of the selected name; by id, it is an integer for which a row  *)
(* with a name exists.  So no chart fails with "No data for this           *)
(* organization_id".  By id, an empty input, an input that is no integer   *)
(* and an id without a row each stop the run with their message.           *)
(***************************************************************************)
C9_RowsOf(id) == {i \in 1..Len(df[1].rows) : df[1].rows[i].organization_id = id}

C9_OrgHasRows ==
    /\ (pc = "render" /\ org_id # <<>>) =>
          /\ org_id[1] \in Int /\ org_id[1] # NA
          /\ C9_RowsOf(org_id[1]) # {}
          /\ widgets.mode = "By Name" =>
                LET mine == {i \in 1..Len(df[1].rows) :
                               /\ df[1].rows[i].organization_name = widgets.name[1]
                               /\ df[1].rows[i].organization_id # NA}
                    first == CHOOSE i \in mine : \A j \in mine : i <= j
                IN  mine # {} /\ org_id[1] = df[1].rows[first].organization_id
          /\ widgets.mode = "By ID" =>
                /\ widgets.id_input \in {"1", " 2 ", "7"}
                /\ \E i \in C9_RowsOf(org_id[1]) :
                      df[1].rows[i].organization_name = org_name[1]
    /\ ~Shows(screen, "error", "No data for this organization_id")
    /\ (pc = "idle" /\ Shows(screen, "text_input", "Enter Organization ID")
        /\ "checkbox" \notin Kinds(screen)) =>
          LET last == screen[Len(screen)] IN
          /\ "button" \notin Kinds(screen)
          /\ widgets.id_input = "" =>
                last = El("info", "Please enter an organization ID.")
          /\ widgets.id_input = "abc" =>
                last = El("error", "Please enter a valid numeric organization ID.")
          /\ widgets.id_input \in {"1", " 2 ", "7"} =>
                last = El("warning", "No organization found for that ID.")
    /\ (pc \in {"controls", "render"} /\ widgets.mode = "By ID") =>
          /\ widgets.id_input \in {"1", " 2 "}
          /\ org_id # <<>>

\* The render section reached with an organization entered by its id.
C9_Witness ==
    /\ pc = "render"
    /\ widgets.mode = "By ID" /\ widgets.id_input = " 2 "
    /\ org_id = <<2>>
    /\ widgets.button

(***************************************************************************)
(* C10: an exception of a plot function is caught in the render section    *)
(* and shown as one error message; the charts before the failing one stay  *)
(* on the page, and the failing chart and the selected charts after it are *)
(* not rendered.                                                           *)
(***************************************************************************)
C10_FirstFailure ==
    LET bad == {i \in 1..Len(C5_Wanted) : C5_Wanted[i].kind # "fig"} IN
    IF bad = {} THEN 0 ELSE CHOOSE i \in bad : \A j \in bad : i <= j

C10_ErrorsCaught ==
    /\ (RenderedRun /\ widgets.button) =>
          LET k == C10_FirstFailure IN
          /\ "exception" \notin Kinds(screen)
          /\ Len(ErrorsAfterButton) = IF k = 0 THEN 0 ELSE 1
          /\ k # 0 =>
                /\ screen[Len(screen)].kind = "error"
                /\ Len(ChartsShown) = k - 1
                /\ \A i \in 1..(k - 1) : ChartsShown[i].fig = C5_Wanted[i].fig
    /\ (pc = "idle" /\ "exception" \in Kinds(screen)) => "button" \notin Kinds(screen)

\* All three charts selected, the conditional one fails: the inventory chart,
\* then the one error message, and no absolute chart.
C10_Witness ==
    /\ RenderedRun /\ widgets.button
    /\ widgets.show_inventory /\ widgets.show_conditional /\ widgets.show_absolute
    /\ C10_FirstFailure = 2
    /\ Len(ChartsShown) = 1
    /\ Len(ErrorsAfterButton) = 1
    /\ screen[Len(screen)].kind = "error"

====
